---- MODULE Spec2Model ----
(***************************************************************************)
(* Model of the Alpaca spot loader (alpaca_spot_loader/__main__.py), the   *)
(* incremental synchronisation engine of tic-data-etl: reconciliation of   *)
(* inactive symbols, fetch plan, per-symbol fetch and classification,      *)
(* batched upsert of bars and checkpoints, pacing.                         *)
(*                                                                         *)
(* Time is in seconds counted from datetime.min.  The provider holds, per  *)
(* symbol, a fixed series of bars (one per traded interval slot) of which  *)
(* the slots already opened at the wall-clock time are visible.  The       *)
(* storage connection has a working view (spot, latest: what the open      *)
(* transaction sees) and a durable state (durSpot, durLatest: what a       *)
(* commit has made visible to a later process).                            *)
(***************************************************************************)
EXTENDS Integers, Sequences, FiniteSets, TLC

\* ------------------------------------------------------------------ bounds
\* Bar slots of the provider's history: slot k opens at BarTime(k).
MaxK == 3
\* Length of the symbol list the provider enumerates.
MaxList == 2
\* Cycles (run_once calls) over all runs of the process.
MaxCycles == 2
\* Length of the interval specifiers given to the interval arithmetic.
MaxLen == 3
\* Cycles of a service run that catches up with a fixed series.
MaxCatchUpCycles == 4

\* ------------------------------------------------------- program constants
\* BATCH_SIZE = 1000 in load_from_keys, scaled down to the model's sizes.
BATCH_SIZE == 2
\* limit = 1000 of Source.get_bars, scaled down to the model's sizes.
limit == 3
\* The request budget (800) of check_request_limit, scaled down.
REQUEST_LIMIT == 4
\* timedelta(days=1), in seconds.
DAY == 86400

Symbols == {"A", "B", "C"}

\* The intervals for which storage tables exist (Entity.SPOT_1H, SPOT_1D),
\* as the character sequences of the --interval argument.
Intervals == {<<"1", "h">>, <<"1", "d">>}

\* Values of the --interval argument that are no interval: an amount that is
\* not positive, a unit that does not exist.
MalformedIntervals == {<<"0", "h">>, <<"1", "x">>}

None == [none |-> TRUE]

\* ------------------------------------------------------- interval arithmetic
SECONDS_PER_UNIT ==
    [u \in {"m", "h", "d", "w"} |->
        CASE u = "m" -> 60
          [] u = "h" -> 60 * 60
          [] u = "d" -> 24 * 60 * 60
          [] u = "w" -> 7 * 24 * 60 * 60]

Digits == {"0", "1", "2", "3", "4", "5", "6", "7", "8", "9"}

DigitVal(c) ==
    CASE c = "0" -> 0 [] c = "1" -> 1 [] c = "2" -> 2 [] c = "3" -> 3
      [] c = "4" -> 4 [] c = "5" -> 5 [] c = "6" -> 6 [] c = "7" -> 7
      [] c = "8" -> 8 [] c = "9" -> 9

RECURSIVE DecimalOf(_)
DecimalOf(s) ==
    IF s = <<>> THEN 0
    ELSE 10 * DecimalOf(SubSeq(s, 1, Len(s) - 1)) + DigitVal(s[Len(s)])

\* Python's int() on the characters s: an optional sign and decimal digits;
\* anything else raises ValueError.
IntOf(s) ==
    LET signed == s # <<>> /\ s[1] \in {"-", "+"}
        body   == IF signed THEN Tail(s) ELSE s
    IN  IF body = <<>> \/ \E i \in 1..Len(body) : body[i] \notin Digits
        THEN [ok |-> FALSE, val |-> 0]
        ELSE [ok |-> TRUE,
              val |-> IF signed /\ s[1] = "-" THEN 0 - DecimalOf(body)
                      ELSE DecimalOf(body)]

\* interval_str[:-1] and interval_str[-1]
Prefix(interval_str) == SubSeq(interval_str, 1, Len(interval_str) - 1)
Unit(interval_str) == interval_str[Len(interval_str)]

\* parse_interval_to_timedelta: the duration in seconds, or an error
\* (ValueError of int(), KeyError of SECONDS_PER_UNIT).
parse_interval_to_timedelta(interval_str) ==
    IF interval_str = <<>> \/ ~IntOf(Prefix(interval_str)).ok
       \/ Unit(interval_str) \notin DOMAIN SECONDS_PER_UNIT
    THEN [ok |-> FALSE, val |-> 0]
    ELSE [ok |-> TRUE,
          val |-> IntOf(Prefix(interval_str)).val
                    * SECONDS_PER_UNIT[Unit(interval_str)]]

\* get_next_interval (mutant: the duration is added in milliseconds)
get_next_interval_ms(interval_str, timestamp) ==
    timestamp + parse_interval_to_timedelta(interval_str).val * 1000

\* get_next_interval
get_next_interval(interval_str, timestamp) ==
    timestamp + parse_interval_to_timedelta(interval_str).val

\* datetime_to_binance_timestamp: milliseconds
datetime_to_binance_timestamp(d) == d * 1000

\* check_active (mutant: strict comparison)
check_active_strict(interval_str, d, utcnow) ==
    LET ts   == datetime_to_binance_timestamp(d)
        lag1 == IntOf(Prefix(interval_str)).val
                  * SECONDS_PER_UNIT[Unit(interval_str)] * 1000
        n    == datetime_to_binance_timestamp(utcnow)
    IN  IF n - lag1 > ts THEN FALSE ELSE TRUE

check_active(interval_str, d, utcnow) ==
    LET ts   == datetime_to_binance_timestamp(d)
        lag1 == IntOf(Prefix(interval_str)).val
                  * SECONDS_PER_UNIT[Unit(interval_str)] * 1000
        n    == datetime_to_binance_timestamp(utcnow)
    IN  IF n - lag1 >= ts THEN FALSE ELSE TRUE

\* ------------------------------------------------------------------- state
VARIABLES
    interval,           \* args.interval, as characters
    as_service,         \* args.as_service
    history,            \* provider: per symbol, the slots that have a bar
    now,                \* wall clock (datetime.utcnow), seconds
    durSpot,            \* committed rows of alpaca.spot_{interval}
    durLatest,          \* committed rows of alpaca.spot_{interval}_latest
    tblSpot,            \* alpaca.spot_{interval} as the connection sees it
    tblLatest,          \* alpaca.spot_{interval}_latest as the connection sees it
    next_id,            \* the id sequence behind get_next_ids
    pc,                 \* position of the process
    outcome,            \* how the last run ended
    cycles,             \* run_once calls so far
    mode,               \* Loader.mode
    n_requests,         \* Loader.n_requests
    window,             \* history: provider requests since the last cool-down
    symbol_list,        \* result of get_symbols
    active_symbols,     \* check_trading_status: symbols reported tradable
    latest,             \* get_keys: rows read by get_latest
    keys,               \* get_keys: the fetch plan
    n_active_symbols,   \* Loader._n_active_symbols
    processed_symbols,  \* load_from_keys
    record_objs,        \* load_from_keys: pending bar records
    new_latest,         \* load_from_keys: pending checkpoints (or None)
    symbol_record_objs, \* load_from_keys: records of the symbol just fetched
    persisted_records,  \* load_from_keys
    fetched,            \* history: the number of bars each request returned
    at_plan,            \* history: the durable tables when get_keys read them
    calc                \* a call of the interval arithmetic and its results

vars ==
    <<interval, as_service, history, now, durSpot, durLatest, tblSpot,
      tblLatest, next_id, pc, outcome, cycles, mode, n_requests, window,
      symbol_list, active_symbols, latest, keys, n_active_symbols, processed_symbols,
      record_objs, new_latest, symbol_record_objs, persisted_records,
      fetched, at_plan, calc>>

envVars == <<interval, history, calc>>
dbVars == <<durSpot, durLatest, tblSpot, tblLatest>>
loopVars ==
    <<keys, latest, n_active_symbols, processed_symbols, record_objs,
      new_latest, symbol_record_objs, persisted_records, fetched, at_plan>>

\* -------------------------------------------------------------------- time
\* datetime.min, the origin of the model's clock.
datetime_min == 0
\* datetime.min + timedelta(days=1): the start of the fetch window of a
\* symbol that has no checkpoint.
Sentinel == datetime_min + DAY

Duration == parse_interval_to_timedelta(interval).val
\* The clock moves in half intervals.
Tick == Duration \div 2
\* Slot k of the provider's history opens at BarTime(k).
BarTime(k) == Sentinel + k * Duration
MaxNow == Sentinel + (2 * MaxK + 2) * Tick
Clock == {Sentinel + n * Tick : n \in 0..(2 * MaxK + 2)}

\* -------------------------------------------------------------- sequences
Last(s) == s[Len(s)]

\* The elements of a set of integers, ascending.
SeqOfSet(S) ==
    [i \in 1..Cardinality(S) |->
        CHOOSE x \in S : Cardinality({y \in S : y < x}) = i - 1]

\* Every enumeration order of a set.
Orders(S) ==
    {q \in [1..Cardinality(S) -> S] : \A i, j \in DOMAIN q : i # j => q[i] # q[j]}

Range(s) == {s[i] : i \in DOMAIN s}

\* ------------------------------------------------------------ record model
source_name == "ALPACA"

\* BarRecord.build_record: the id, the symbol and the open timestamp of the
\* bar; trades stands for the bar's measured fields (prices, volumes, vwap,
\* trade count), which differ between a forming and a final bar.
build_record(id, bar) ==
    [id |-> id, symbol |-> bar.symbol, open_time |-> bar.timestamp,
     trades |-> bar.trade_count]

\* BarRecord.as_tuple: (id, symbol, open_time, ..., trades)
as_tuple(r) == <<r.id, r.symbol, r.open_time, r.trades>>

\* Latest.build_record([symbol, id, latest_close, active, source])
Latest_build_record(l) ==
    [symbol |-> l[1], id |-> l[2], latest_close |-> l[3], active |-> l[4],
     source |-> l[5]]

\* Latest.as_tuple: (symbol, id, latest_close, active, source)
Latest_as_tuple(r) == <<r.symbol, r.id, r.latest_close, r.active, r.source>>

\* latest_closed (mutant: references the last record instead of the
\* second-to-last)
latest_closed_last(symbol, objs, utcnow) ==
    IF Len(objs) > 1
    THEN Latest_build_record(
             <<symbol, objs[Len(objs)].id, objs[Len(objs)].open_time, TRUE,
               source_name>>)
    ELSE LET active == check_active(interval, objs[1].open_time, utcnow)
         IN  IF ~active
             THEN Latest_build_record(
                      <<symbol, objs[1].id, objs[1].open_time, active,
                        source_name>>)
             ELSE None

\* latest_closed (mutant: the checkpoint of two or more bars is inactive)
latest_closed_inactive(symbol, objs, utcnow) ==
    IF Len(objs) > 1
    THEN LET last_closed_bar == objs[Len(objs) - 1]
         IN  Latest_build_record(
                 <<symbol, last_closed_bar.id, last_closed_bar.open_time,
                   FALSE, source_name>>)
    ELSE LET active == check_active(interval, objs[1].open_time, utcnow)
         IN  IF ~active
             THEN Latest_build_record(
                      <<symbol, objs[1].id, objs[1].open_time, active,
                        source_name>>)
             ELSE None

\* Loader.latest_closed
latest_closed(symbol, objs, utcnow) ==
    IF Len(objs) > 1
    THEN LET last_closed_bar == objs[Len(objs) - 1]
         IN  Latest_build_record(
                 <<symbol, last_closed_bar.id, last_closed_bar.open_time,
                   TRUE, source_name>>)
    ELSE LET active == check_active(interval, objs[1].open_time, utcnow)
         IN  IF ~active
             THEN LET last_bar == objs[1]
                  IN  Latest_build_record(
                          <<symbol, last_bar.id, last_bar.open_time, active,
                            source_name>>)
             ELSE None

\* ------------------------------------------------------------------ storage
RowOf(t) == [id |-> t[1], symbol |-> t[2], open_time |-> t[3], trades |-> t[4]]

\* One row of SpotQueries.UPSERT (mutant: the conflict branch adds the new
\* measure to the stored one)
SpotUpsertRow_add(table, t) ==
    IF \E e \in table : e.symbol = t[2] /\ e.open_time = t[3]
    THEN LET e == CHOOSE e \in table : e.symbol = t[2] /\ e.open_time = t[3]
         IN  (table \ {e})
               \cup {[e EXCEPT !.symbol = t[2], !.open_time = t[3],
                               !.trades = e.trades + t[4]]}
    ELSE table \cup {RowOf(t)}

\* One row of SpotQueries.UPSERT: insert, or on a conflict on
\* (symbol, open_time) set every listed column (the id is not listed).
SpotUpsertRow(table, t) ==
    IF \E e \in table : e.symbol = t[2] /\ e.open_time = t[3]
    THEN LET e == CHOOSE e \in table : e.symbol = t[2] /\ e.open_time = t[3]
         IN  (table \ {e})
               \cup {[e EXCEPT !.symbol = t[2], !.open_time = t[3],
                               !.trades = t[4]]}
    ELSE table \cup {RowOf(t)}

\* SpotQueries.UPSERT over the rows of one statement, in order.
RECURSIVE SpotQueries_UPSERT(_, _)
SpotQueries_UPSERT(table, rows) ==
    IF rows = <<>> THEN table
    ELSE SpotQueries_UPSERT(SpotUpsertRow(table, Head(rows)), Tail(rows))

\* One row of SpotLatestQueries.UPSERT: insert, or on a conflict on symbol
\* set every column.
LatestUpsertRow(table, t) ==
    [s \in DOMAIN table \cup {t[1]} |->
        IF s = t[1]
        THEN [symbol |-> t[1], id |-> t[2], latest_close |-> t[3],
              active |-> t[4], source |-> t[5]]
        ELSE table[s]]

\* SpotLatestQueries.UPSERT (mutant: the conflict branch takes latest_close
\* from the id column)
SpotLatestQueries_UPSERT_slip(table, rows) ==
    LET t == rows[Len(rows)]
    IN  IF rows = <<>> THEN table
        ELSE [s \in DOMAIN table \cup {t[1]} |->
                IF s = t[1]
                THEN [symbol |-> t[1], id |-> t[2],
                      latest_close |-> IF s \in DOMAIN table THEN t[2] ELSE t[3],
                      active |-> t[4], source |-> t[5]]
                ELSE table[s]]

RECURSIVE SpotLatestQueries_UPSERT(_, _)
SpotLatestQueries_UPSERT(table, rows) ==
    IF rows = <<>> THEN table
    ELSE SpotLatestQueries_UPSERT(LatestUpsertRow(table, Head(rows)), Tail(rows))

\* SpotLatestQueries.CORRECT_TRADING_STATUS (mutant: the WHERE clause matches
\* no row)
CORRECT_TRADING_STATUS_nomatch(interval_str, table, data) ==
    [ok |-> interval_str = <<"1", "h">>, table |-> table]

\* SpotLatestQueries.CORRECT_TRADING_STATUS (mutant: also rewrites
\* latest_close of the rows it matches)
CORRECT_TRADING_STATUS_reset(interval_str, table, data) ==
    [ok    |-> interval_str = <<"1", "h">>,
     table |-> [s \in DOMAIN table |->
                  IF \E d \in data : d[1] = s
                  THEN [table[s] EXCEPT
                          !.active = (CHOOSE d \in data : d[1] = s)[2],
                          !.latest_close = Sentinel]
                  ELSE table[s]]]

\* SpotLatestQueries.CORRECT_TRADING_STATUS: UPDATE spot_{interval}_latest
\* SET active = data.active ... WHERE spot_1h_latest.symbol = data.symbol.
\* The WHERE clause names the 1h table: for any other interval the statement
\* refers to a table that is not in its FROM list and the store rejects it.
CORRECT_TRADING_STATUS(interval_str, table, data) ==
    [ok    |-> interval_str = <<"1", "h">>,
     table |-> [s \in DOMAIN table |->
                  IF \E d \in data : d[1] = s
                  THEN [table[s] EXCEPT
                          !.active = (CHOOSE d \in data : d[1] = s)[2]]
                  ELSE table[s]]]

\* Target.get_inactive_symbols: the symbols checkpointed active = false.
get_inactive_symbols(table) == {s \in DOMAIN table : ~table[s].active}

\* Target.get_latest: (symbol, latest_close, active) of every checkpoint.
get_latest(table) ==
    {<<s, table[s].latest_close, table[s].active>> : s \in DOMAIN table}

\* Target.get_next_ids: a block of n fresh ids of the sequence.
get_next_ids(n) == [i \in 1..n |-> next_id + i - 1]

\* ----------------------------------------------------------------- provider
\* A provider bar of slot k as served at the wall-clock time: its measured
\* fields are final once the slot has closed.
Bar(symbol, k) ==
    [symbol |-> symbol, timestamp |-> BarTime(k),
     trade_count |-> IF now >= BarTime(k) + Duration THEN 2 ELSE 1]

\* Source.get_bars: the first `limit` bars at or after start_time, ascending
\* (bars[symbol]); the empty result stands for None (APIError, KeyError).
get_bars(symbol, start_time) ==
    LET slots == {k \in history[symbol] :
                    BarTime(k) >= start_time /\ BarTime(k) <= now}
        all   == SeqOfSet(slots)
        n     == IF Len(all) < limit THEN Len(all) ELSE limit
    IN  [i \in 1..n |-> Bar(symbol, all[i])]

\* Source.interval_to_timeframe: the exception its evaluation raises, or
\* "none": int() of the prefix (ValueError), then the lookup of the unit
\* (KeyError), then TimeFrame, which refuses an amount that is not positive
\* (ValueError).
interval_to_timeframe(interval_str) ==
    IF interval_str = <<>> \/ ~IntOf(Prefix(interval_str)).ok
    THEN "ValueError"
    ELSE IF Unit(interval_str) \notin {"m", "h", "d", "w"} THEN "KeyError"
    ELSE IF IntOf(Prefix(interval_str)).val <= 0 THEN "ValueError"
    ELSE "none"

\* The failures of the provider on a bar request.
ProviderErrors == {"APIError"}

\* Source.get_bars, lines 107-112 (mutant: only KeyError is caught)
get_bars_excepts_keyerror == {"KeyError"}

\* Source.get_bars, lines 107-112: the exceptions answered with None.
get_bars_excepts == {"KeyError", "APIError"}

\* Source.get_bars as the loader sees it: whether the call raised, whether
\* the request went out to the provider, and the bars returned (the empty
\* result stands for None).  The timeframe is built inside the try block,
\* before the request.
GetBarsResponses(symbol, start_time) ==
    LET Answer(e, requested, bars) ==
            [raised    |-> e # "none" /\ e \notin get_bars_excepts,
             requested |-> requested,
             bars      |-> IF e = "none" THEN bars ELSE <<>>]
        tf == interval_to_timeframe(interval)
    IN  IF tf # "none" THEN {Answer(tf, FALSE, <<>>)}
        ELSE {Answer("none", TRUE, get_bars(symbol, start_time))}
               \cup {Answer(e, TRUE, <<>>) : e \in ProviderErrors}

\* Source.get_trading_status: (symbol, tradable) of the assets the provider
\* lists among the asked symbols; [] when none is asked.
TradingStatusResponses(symbols) ==
    {{<<s, f[s] = "tradable">> : s \in {x \in symbols : f[x] # "absent"}} :
        f \in [symbols -> {"tradable", "halted", "absent"}]}

\* Source.get_symbols: a list of symbols; the empty list stands for None.
SymbolLists ==
    UNION {[1..n -> Symbols] : n \in 0..MaxList}

\* ------------------------------------------------------------------- engine
\* check_request_limit (mutant: the cool-down comes one request late)
check_request_limit_late(n) == IF n + 1 > REQUEST_LIMIT THEN 1 ELSE n + 1

\* Loader.check_request_limit: the counter after the call; it is 1 exactly
\* when the call slept (the cool-down).
check_request_limit(n) == IF n + 1 >= REQUEST_LIMIT THEN 1 ELSE n + 1

RECURSIVE ActiveKeys(_)
\* get_keys, lines 132-142: a key for every row read that is active.
ActiveKeys(rows) ==
    IF rows = <<>> THEN <<>>
    ELSE LET r == Head(rows)
         IN  (IF r[3] THEN <<<<r[1], get_next_interval(interval, r[2])>>>>
              ELSE <<>>) \o ActiveKeys(Tail(rows))

\* get_keys, lines 143-145: the orders in which new_symbols may be listed.
new_symbols(rows, symbol_lst) ==
    IF rows # <<>>
    THEN Orders(Range(symbol_lst) \ {rows[i][1] : i \in DOMAIN rows})
    ELSE {symbol_lst}

\* get_keys, lines 146-149
NewKeys(syms) == [i \in DOMAIN syms |-> <<syms[i], datetime_min + DAY>>]

\* An exception leaves run_once (mutant: the service loop logs it and goes
\* on with the next cycle)
Raise_continue ==
    /\ pc' = IF as_service THEN "run_once" ELSE "exit"
    /\ outcome' = IF as_service THEN "terminated" ELSE "crashed"
    /\ tblSpot' = durSpot
    /\ tblLatest' = durLatest
    /\ UNCHANGED <<durSpot, durLatest>>

\* An exception leaves run_once: the service loop logs it and ends, a
\* one-shot run dies of it; the open transaction is never committed.
Raise ==
    /\ pc' = "exit"
    /\ outcome' = IF as_service THEN "terminated" ELSE "crashed"
    /\ tblSpot' = durSpot
    /\ tblLatest' = durLatest
    /\ UNCHANGED <<durSpot, durLatest>>

\* --------------------------------------------------------------------- Init
\* The provider's series: symbol "B" trades in every slot, symbol "A" in
\* none, with a gap, or from a late listing on, symbol "C" in the first slot
\* only.
Histories ==
    {h \in [Symbols -> SUBSET (1..MaxK)] :
        /\ h["A"] \in {{}, {1, 3}, 2..MaxK}
        /\ h["B"] = 1..MaxK
        /\ h["C"] = {1}}

EmptyLatest == [s \in {} |-> None]

\* The storage before the first run and the Loader as __init__ leaves it.
LoaderInit ==
    /\ durSpot = {}
    /\ durLatest = EmptyLatest
    /\ tblSpot = {}
    /\ tblLatest = EmptyLatest
    /\ next_id = 1
    /\ pc = "init"
    /\ outcome = "none"
    /\ cycles = 0
    /\ mode = "FAST"
    /\ n_requests = 1
    /\ window = <<>>
    /\ symbol_list = <<>>
    /\ active_symbols = {}
    /\ latest = <<>>
    /\ keys = <<>>
    /\ n_active_symbols = 0
    /\ processed_symbols = 0
    /\ record_objs = <<>>
    /\ new_latest = <<>>
    /\ symbol_record_objs = <<>>
    /\ persisted_records = 0
    /\ fetched = <<>>
    /\ at_plan = [spot |-> {}, latest |-> EmptyLatest]

\* No call of the interval arithmetic on its own.
NoCalc ==
    [step |-> "none", interval_str |-> <<>>, timestamp |-> 0,
     duration |-> [ok |-> FALSE, val |-> 0], next |-> 0]

Init ==
    /\ interval \in Intervals \cup MalformedIntervals
    /\ as_service \in BOOLEAN
    /\ history \in Histories
    /\ now \in Clock
    /\ calc = NoCalc
    /\ LoaderInit

\* ------------------------------------------------------------------ actions
\* Loader.run up to the first cycle: setup, get_symbols; nothing runs on an
\* empty list or a failed request.
Run ==
    /\ pc = "init"
    /\ \E lst \in SymbolLists :
         /\ symbol_list' = lst
         /\ IF lst = <<>>
            THEN pc' = "exit" /\ outcome' = "no_symbols"
            ELSE pc' = "run_once" /\ UNCHANGED outcome
    /\ window' = window \o <<"ping", "symbols">>
    /\ UNCHANGED <<envVars, as_service, now, dbVars, next_id, cycles, mode,
                   n_requests, active_symbols, loopVars>>

\* run_once, line 61 (mutant: the mode of the previous cycle is kept)
ResetMode_keep == mode' = mode

\* run_once, line 61
ResetMode == mode' = "SLOW"

\* run_once, lines 67-68
ModeAtEnd(persisted, n_active) ==
    IF persisted > n_active THEN "FAST" ELSE mode

\* run_once, lines 61-63: the mode is reset, then check_trading_status with
\* its own committed update.
RunOnceStart ==
    /\ pc = "run_once"
    /\ cycles' = cycles + 1
    /\ ResetMode
    /\ n_requests' = check_request_limit(n_requests)
    /\ window' = IF n_requests' = 1 THEN <<>> ELSE Append(window, "status")
    /\ \E trading_status \in
            {{}} \cup TradingStatusResponses(get_inactive_symbols(tblLatest)) :
         LET tradable == {t \in trading_status : t[2]}
             upd == CORRECT_TRADING_STATUS(interval, tblLatest, tradable)
         IN  /\ active_symbols' = tradable
             /\ IF tradable = {}
                THEN /\ pc' = "get_keys"
                     /\ UNCHANGED <<dbVars, outcome>>
                ELSE IF upd.ok
                THEN /\ tblLatest' = upd.table
                     /\ durLatest' = upd.table
                     /\ durSpot' = tblSpot
                     /\ pc' = "get_keys"
                     /\ UNCHANGED <<tblSpot, outcome>>
                ELSE Raise
    /\ UNCHANGED <<envVars, as_service, now, next_id, symbol_list, loopVars>>

\* get_keys, and the locals of load_from_keys.
GetKeys ==
    /\ pc = "get_keys"
    /\ \E rows \in Orders(get_latest(tblLatest)) :
         \E syms \in new_symbols(rows, symbol_list) :
            /\ latest' = rows
            /\ keys' = ActiveKeys(rows) \o NewKeys(syms)
            /\ n_active_symbols' = Len(ActiveKeys(rows) \o NewKeys(syms))
    /\ processed_symbols' = 0
    /\ record_objs' = <<>>
    /\ new_latest' = <<>>
    /\ symbol_record_objs' = <<>>
    /\ persisted_records' = 0
    /\ fetched' = <<>>
    /\ at_plan' = [spot |-> durSpot, latest |-> durLatest]
    /\ pc' = "loop"
    /\ UNCHANGED <<envVars, as_service, now, dbVars, next_id, outcome, cycles,
                   mode, n_requests, window, symbol_list, active_symbols>>

\* load_from_keys, line 106 (mutant: no flush after the last symbol)
FlushDue_nofinal(objs, i) ==
    objs # <<>> /\ i % BATCH_SIZE = 0

\* load_from_keys, line 106: whether the batch is flushed after symbol i.
FlushDue(objs, i) ==
    objs # <<>> /\ (i % BATCH_SIZE = 0 \/ i = n_active_symbols)

\* load_from_keys, lines 95-96 (mutant: a symbol without bars is
\* checkpointed as inactive at the start of its window)
NoBars_deactivate(i) ==
    /\ symbol_record_objs' = <<>>
    /\ new_latest' =
         Append(new_latest,
                [symbol |-> keys[i][1], id |-> 0, latest_close |-> keys[i][2],
                 active |-> FALSE, source |-> source_name])
    /\ UNCHANGED <<next_id, record_objs>>

\* load_from_keys, lines 95-96: no bars for key i, a warning is logged.
NoBars(i) ==
    /\ symbol_record_objs' = <<>>
    /\ UNCHANGED <<next_id, record_objs, new_latest>>

\* load_from_keys, lines 83-106: one symbol of the plan.  A bar that lacks
\* a measured field makes build_record raise.
ProcessKey ==
    /\ pc = "loop"
    /\ processed_symbols < Len(keys)
    /\ LET i == processed_symbols + 1
           symbol == keys[i][1]
           start_time == keys[i][2]
       IN  \E response \in GetBarsResponses(symbol, start_time) :
           \E malformed \in BOOLEAN :
           LET bars == response.bars
           IN
             /\ processed_symbols' = i
             /\ n_requests' = check_request_limit(n_requests)
             /\ window' =
                  LET w == IF n_requests' = 1 THEN <<>> ELSE window
                  IN  IF response.requested THEN Append(w, "bars") ELSE w
             /\ fetched' = Append(fetched, Len(bars))
             /\ IF response.raised
                THEN /\ ~malformed
                     /\ Raise
                     /\ UNCHANGED <<next_id, symbol_record_objs, record_objs,
                                    new_latest>>
                ELSE IF bars = <<>>
                THEN /\ ~malformed
                     /\ NoBars(i)
                     /\ pc' = IF FlushDue(record_objs', i)
                              THEN "exec_spot" ELSE "loop"
                     /\ UNCHANGED <<dbVars, outcome>>
                ELSE LET record_ids == get_next_ids(Len(bars))
                         objs == [j \in DOMAIN bars |->
                                    build_record(record_ids[j], bars[j])]
                     IN  /\ next_id' = next_id + Len(bars)
                         /\ IF malformed
                            THEN /\ Raise
                                 /\ UNCHANGED <<symbol_record_objs,
                                                record_objs, new_latest>>
                            ELSE /\ symbol_record_objs' = objs
                                 /\ new_latest' =
                                      Append(new_latest,
                                             latest_closed(symbol, objs, now))
                                 /\ record_objs' = record_objs \o objs
                                 /\ pc' = IF FlushDue(record_objs', i)
                                          THEN "exec_spot" ELSE "loop"
                                 /\ UNCHANGED <<dbVars, outcome>>
    /\ UNCHANGED <<envVars, as_service, now, cycles, mode, symbol_list,
                   active_symbols, latest, keys, n_active_symbols,
                   persisted_records, at_plan>>

\* persist_records, line 121
ExecuteSpotUpsert_autocommit ==
    /\ pc = "exec_spot"
    /\ tblSpot' =
         SpotQueries_UPSERT(tblSpot, [i \in DOMAIN record_objs |->
                                        as_tuple(record_objs[i])])
    /\ durSpot' = tblSpot'
    /\ pc' = "exec_latest"
    /\ UNCHANGED <<envVars, as_service, now, durLatest, tblLatest, next_id,
                   outcome, cycles, mode, n_requests, window, symbol_list,
                   active_symbols, loopVars>>

ExecuteSpotUpsert ==
    /\ pc = "exec_spot"
    /\ tblSpot' =
         SpotQueries_UPSERT(tblSpot, [i \in DOMAIN record_objs |->
                                        as_tuple(record_objs[i])])
    /\ pc' = "exec_latest"
    /\ UNCHANGED <<envVars, as_service, now, durSpot, durLatest, tblLatest,
                   next_id, outcome, cycles, mode, n_requests, window, symbol_list,
                   active_symbols, loopVars>>

\* load_from_keys, line 110: [r.as_tuple() for r in new_latest if r]
LatestRecords ==
    LET kept == SelectSeq(new_latest, LAMBDA r : r # None)
    IN  [i \in DOMAIN kept |-> Latest_as_tuple(kept[i])]

\* persist_records, line 122 (mutant: the statement commits by itself)
ExecuteLatestUpsert_autocommit ==
    /\ pc = "exec_latest"
    /\ tblLatest' = SpotLatestQueries_UPSERT(tblLatest, LatestRecords)
    /\ durLatest' = tblLatest'
    /\ pc' = "commit"
    /\ UNCHANGED <<envVars, as_service, now, durSpot, tblSpot, next_id,
                   outcome, cycles, mode, n_requests, window, symbol_list,
                   active_symbols, loopVars>>

\* persist_records, line 122
ExecuteLatestUpsert ==
    /\ pc = "exec_latest"
    /\ tblLatest' = SpotLatestQueries_UPSERT(tblLatest, LatestRecords)
    /\ pc' = "commit"
    /\ UNCHANGED <<envVars, as_service, now, durSpot, durLatest, tblSpot,
                   next_id, outcome, cycles, mode, n_requests, window, symbol_list,
                   active_symbols, loopVars>>

\* persist_records, line 123, and load_from_keys, lines 112-114
CommitTransaction ==
    /\ pc = "commit"
    /\ durSpot' = tblSpot
    /\ durLatest' = tblLatest
    /\ persisted_records' = persisted_records + Len(record_objs)
    /\ record_objs' = <<>>
    /\ new_latest' = <<>>
    /\ pc' = "loop"
    /\ UNCHANGED <<envVars, as_service, now, tblSpot, tblLatest, next_id,
                   outcome, cycles, mode, n_requests, window, symbol_list,
                   active_symbols, latest, keys, n_active_symbols,
                   processed_symbols, symbol_record_objs, fetched, at_plan>>

\* A statement or the commit of persist_records fails.
StorageError ==
    /\ pc \in {"exec_spot", "exec_latest", "commit"}
    /\ Raise
    /\ UNCHANGED <<envVars, as_service, now, next_id, cycles, mode,
                   n_requests, window, symbol_list, active_symbols, loopVars>>

\* The process dies in the middle of persist_records.
Crash ==
    /\ pc \in {"exec_spot", "exec_latest", "commit"}
    /\ pc' = "exit"
    /\ outcome' = "killed"
    /\ tblSpot' = durSpot
    /\ tblLatest' = durLatest
    /\ UNCHANGED <<envVars, as_service, now, durSpot, durLatest, next_id,
                   cycles, mode, n_requests, window, symbol_list, active_symbols,
                   loopVars>>

\* run_once, lines 67-68, after load_from_keys has returned.
RunOnceEnd ==
    /\ pc = "loop"
    /\ processed_symbols = Len(keys)
    /\ mode' = ModeAtEnd(persisted_records, n_active_symbols)
    /\ IF as_service
       THEN pc' = "pacing" /\ UNCHANGED outcome
       ELSE pc' = "exit" /\ outcome' = "done"
    /\ UNCHANGED <<envVars, as_service, now, dbVars, next_id, cycles,
                   n_requests, window, symbol_list, active_symbols, loopVars>>

\* run_as_service, lines 214-229: the sleep before the next cycle; the locals
\* of the cycle that returned are gone.
Sleep(t) ==
    /\ pc = "pacing"
    /\ mode \in {"FAST", "SLOW"}
    /\ mode = "SLOW" => parse_interval_to_timedelta(interval).ok
    /\ now' = t
    /\ pc' = "run_once"
    /\ active_symbols' = {}
    /\ latest' = <<>>
    /\ keys' = <<>>
    /\ processed_symbols' = 0
    /\ record_objs' = <<>>
    /\ new_latest' = <<>>
    /\ symbol_record_objs' = <<>>
    /\ persisted_records' = 0
    /\ fetched' = <<>>
    /\ at_plan' = [spot |-> {}, latest |-> EmptyLatest]
    /\ UNCHANGED <<envVars, as_service, dbVars, next_id, outcome, cycles,
                   mode, n_requests, window, symbol_list, n_active_symbols>>

\* run_as_service, lines 211-229: the next cycle starts after a sleep during
\* which the clock stands or moves one tick.
Pace ==
    /\ cycles < MaxCycles
    /\ \E t \in {now, now + Tick} :
         /\ t <= MaxNow
         /\ Sleep(t)

\* run_as_service, lines 219-222 and 233-235: in SLOW mode the sleep is
\* computed with interval_to_seconds, whose exception ends the loop.
PaceError ==
    /\ pc = "pacing"
    /\ mode = "SLOW"
    /\ ~parse_interval_to_timedelta(interval).ok
    /\ Raise
    /\ UNCHANGED <<envVars, as_service, now, next_id, cycles, mode,
                   n_requests, window, symbol_list, active_symbols, loopVars>>

\* The process is started again later (a scheduler, a supervisor): a new
\* Loader on the same storage.
Restart ==
    /\ pc = "exit"
    /\ cycles < MaxCycles
    /\ as_service' \in BOOLEAN
    /\ now' \in {t \in Clock : t >= now}
    /\ pc' = "init"
    /\ mode' = "FAST"
    /\ n_requests' = 1
    /\ window' = <<>>
    /\ symbol_list' = <<>>
    /\ active_symbols' = {}
    /\ latest' = <<>>
    /\ keys' = <<>>
    /\ n_active_symbols' = 0
    /\ processed_symbols' = 0
    /\ record_objs' = <<>>
    /\ new_latest' = <<>>
    /\ symbol_record_objs' = <<>>
    /\ persisted_records' = 0
    /\ fetched' = <<>>
    /\ at_plan' = [spot |-> {}, latest |-> EmptyLatest]
    /\ outcome' = "none"
    /\ UNCHANGED <<envVars, dbVars, next_id, cycles>>

Next ==
    \/ Run
    \/ RunOnceStart
    \/ GetKeys
    \/ ProcessKey
    \/ ExecuteSpotUpsert
    \/ ExecuteLatestUpsert
    \/ CommitTransaction
    \/ StorageError
    \/ Crash
    \/ RunOnceEnd
    \/ Pace
    \/ PaceError
    \/ Restart

Spec == Init /\ [][Next]_vars

\* ------------------------------------------------ the interval arithmetic
\* The functions of date_helpers on their own: every specifier of up to
\* MaxLen characters, a few timestamps.
IntervalChars == {"0", "1", "2", "-", "h", "d", "x"}
IntervalStrings == UNION {[1..n -> IntervalChars] : n \in 0..MaxLen}
Timestamps == {datetime_min, Sentinel, Sentinel + 5 * 3600 + 1}

InitArith ==
    /\ interval = <<"1", "h">>
    /\ as_service = FALSE
    /\ history = [s \in Symbols |-> {}]
    /\ now = Sentinel
    /\ LoaderInit
    /\ \E str \in IntervalStrings, t \in Timestamps :
          calc = [NoCalc EXCEPT !.step = "input", !.interval_str = str,
                                !.timestamp = t]

\* parse_interval_to_timedelta(interval_str)
ParseInterval ==
    /\ calc.step = "input"
    /\ calc' = [calc EXCEPT
                  !.step = "parsed",
                  !.duration = parse_interval_to_timedelta(calc.interval_str)]
    /\ UNCHANGED <<interval, history, as_service, now, dbVars, next_id, pc,
                   outcome, cycles, mode, n_requests, window, symbol_list,
                   active_symbols, loopVars>>

\* get_next_interval(interval_str, timestamp), which returns when the
\* specifier parses.
NextInterval ==
    /\ calc.step = "parsed"
    /\ calc.duration.ok
    /\ calc' = [calc EXCEPT
                  !.step = "next",
                  !.next = get_next_interval(calc.interval_str,
                                             calc.timestamp)]
    /\ UNCHANGED <<interval, history, as_service, now, dbVars, next_id, pc,
                   outcome, cycles, mode, n_requests, window, symbol_list,
                   active_symbols, loopVars>>

NextArith == ParseInterval \/ NextInterval

SpecArith == InitArith /\ [][NextArith]_vars

\* ------------------------------------------------ catching up with a series
\* A service run against a provider whose series are fixed and closed: the
\* series of "B" is one bar longer than a request returns, the clock stands
\* after the close of the last slot, every request is served and no statement
\* fails.
CatchUpHistories ==
    {h \in [Symbols -> SUBSET (1..(limit + 1))] :
        /\ h["A"] \in {{}, {1, 3}, 2..(limit + 1)}
        /\ h["B"] = 1..(limit + 1)
        /\ h["C"] = {1}}

InitCatchUp ==
    /\ interval \in Intervals
    /\ as_service = TRUE
    /\ history \in CatchUpHistories
    /\ now = BarTime(limit + 2)
    /\ calc = NoCalc
    /\ LoaderInit

\* check_trading_status without a rejected statement.
RunOnceStartServed == RunOnceStart /\ pc' = "get_keys"

\* One symbol of the plan whose request the provider serves and whose bars
\* are well formed.
ProcessKeyServed ==
    /\ ProcessKey
    /\ pc' # "exit"
    /\ Last(fetched') =
          Len(get_bars(keys[processed_symbols'][1],
                       keys[processed_symbols'][2]))

\* run_as_service, lines 211-229, while the clock stands.
PaceCatchUp ==
    /\ cycles < MaxCatchUpCycles
    /\ Sleep(now)

NextCatchUp ==
    \/ Run
    \/ RunOnceStartServed
    \/ GetKeys
    \/ ProcessKeyServed
    \/ ExecuteSpotUpsert
    \/ ExecuteLatestUpsert
    \/ CommitTransaction
    \/ RunOnceEnd
    \/ PaceCatchUp

\* The process is sequential and goes on with its next statement.
SpecCatchUp ==
    InitCatchUp /\ [][NextCatchUp]_vars /\ WF_vars(NextCatchUp)

\* -------------------------------------------------------------- properties
\* The checkpoint latest_closed builds from the record r.
CheckpointOf(r, active) ==
    [symbol |-> r.symbol, id |-> r.id, latest_close |-> r.open_time,
     active |-> active, source |-> source_name]

\* The bar rows of one symbol.
RowsOf(table, s) == {e \in table : e.symbol = s}

\* C1: the persisted latest_close of a symbol's checkpoint never decreases,
\* and no checkpoint is ever deleted: every step leaves each durable
\* checkpoint in place with a latest_close at least as late as before.
C1_LatestCloseMonotonic ==
    [][\A s \in DOMAIN durLatest :
          /\ s \in DOMAIN durLatest'
          /\ durLatest'[s].latest_close >= durLatest[s].latest_close]_vars

\* C1 witness: a flush is about to commit a later checkpoint over a stored one.
C1_Witness ==
    /\ pc = "commit"
    /\ \E s \in DOMAIN durLatest :
          tblLatest[s].latest_close > durLatest[s].latest_close

\* C2 (as stated): after a fetch of two or more bars the pending checkpoint
\* references the second-to-last record with active = false.
C2_SecondToLastInactive ==
    (Len(symbol_record_objs) >= 2 /\ new_latest # <<>>)
        => Last(new_latest) =
             CheckpointOf(symbol_record_objs[Len(symbol_record_objs) - 1], FALSE)

\* C2 (amended): after a fetch of two or more bars the pending checkpoint
\* references the second-to-last record (its id and open timestamp) with
\* active = true; once the batch is committed, that checkpoint is the stored
\* one and every fetched bar has a stored row.
C2_SecondToLastActive ==
    Len(symbol_record_objs) >= 2 =>
        LET objs == symbol_record_objs
            expected == CheckpointOf(objs[Len(objs) - 1], TRUE)
        IN  /\ new_latest # <<>> => Last(new_latest) = expected
            /\ (new_latest = <<>> /\ pc \in {"loop", "pacing"}) =>
                  /\ expected.symbol \in DOMAIN durLatest
                  /\ durLatest[expected.symbol] = expected
                  /\ \A i \in DOMAIN objs :
                        \E e \in durSpot : /\ e.symbol = objs[i].symbol
                                           /\ e.open_time = objs[i].open_time

\* C2 witness: a new symbol's three bars are committed, the stored checkpoint
\* is at the middle one.
C2_Witness ==
    /\ pc = "loop"
    /\ new_latest = <<>>
    /\ Len(symbol_record_objs) = 3
    /\ symbol_record_objs[1].symbol \notin {latest[i][1] : i \in DOMAIN latest}
    /\ Cardinality(RowsOf(durSpot, symbol_record_objs[1].symbol)) = 3
    /\ durLatest[symbol_record_objs[1].symbol].latest_close
          = symbol_record_objs[2].open_time

\* C3: after a fetch of exactly one bar, a checkpoint with active = false for
\* that bar is pending iff the bar is not still open (now - duration >= its
\* open timestamp), and nothing is pending for it otherwise; no stored
\* checkpoint is at a bar that is still open.
C3_SingleBar ==
    /\ (Len(symbol_record_objs) = 1 /\ new_latest # <<>>) =>
          LET r == symbol_record_objs[1]
              isStillOpen == now - Duration < r.open_time
          IN  IF isStillOpen
              THEN Last(new_latest) = None
              ELSE Last(new_latest) = CheckpointOf(r, FALSE)
    /\ \A s \in DOMAIN durLatest :
          ~(now - Duration < durLatest[s].latest_close)

\* C3 witness: one batch holds a single closed bar with its checkpoint and a
\* single open bar without one.
C3_Witness ==
    /\ Len(symbol_record_objs) = 1
    /\ Len(new_latest) = 2
    /\ \E i, j \in DOMAIN new_latest :
          new_latest[i] = None /\ new_latest[j] # None
                               /\ ~new_latest[j].active

\* The positions between get_keys and the end of the cycle it planned.
Planned == pc \in {"loop", "exec_spot", "exec_latest", "commit", "pacing"}

\* The start of the fetch window get_keys derives for symbol s from a table
\* of checkpoints (none when the checkpoint is inactive).
StartFrom(table, s) ==
    IF s \notin DOMAIN table THEN Sentinel
    ELSE get_next_interval(interval, table[s].latest_close)

\* C4: a symbol whose requests of the cycle all returned zero bars has no bar
\* row persisted by the cycle and its checkpoint (id, latest_close, active)
\* is as get_keys read it, so the window derived from the stored checkpoint
\* still starts where this cycle's key started.
C4_NoBarsNoChange ==
    \A i \in DOMAIN fetched :
        LET s == keys[i][1]
        IN  (\A j \in DOMAIN fetched : keys[j][1] = s => fetched[j] = 0) =>
              /\ RowsOf(durSpot, s) = RowsOf(at_plan.spot, s)
              /\ RowsOf(tblSpot, s) = RowsOf(at_plan.spot, s)
              /\ s \in DOMAIN durLatest <=> s \in DOMAIN at_plan.latest
              /\ s \in DOMAIN durLatest => durLatest[s] = at_plan.latest[s]
              /\ s \in DOMAIN tblLatest <=> s \in DOMAIN at_plan.latest
              /\ StartFrom(durLatest, s) = keys[i][2]

\* C4 witness: a cycle has ended in which one symbol returned no bars while
\* the bars of another were committed.
C4_Witness ==
    /\ pc = "pacing"
    /\ persisted_records > 0
    /\ \E i \in DOMAIN fetched :
          /\ fetched[i] = 0
          /\ keys[i][1] \in DOMAIN durLatest

C6_FlushIdempotent ==
    pc = "commit" =>
        /\ SpotQueries_UPSERT(
               tblSpot, [i \in DOMAIN record_objs |-> as_tuple(record_objs[i])])
             = tblSpot
        /\ SpotLatestQueries_UPSERT(tblLatest, LatestRecords) = tblLatest

\* C6 witness: an executed batch that met a stored row of the same
\* (symbol, open_time) under another id, and carries a checkpoint.
C6_Witness ==
    /\ pc = "commit"
    /\ LatestRecords # <<>>
    /\ \E i \in DOMAIN record_objs :
          \E e \in durSpot : /\ e.symbol = record_objs[i].symbol
                             /\ e.open_time = record_objs[i].open_time
                             /\ e.id # record_objs[i].id

\* C7: when a cycle has ended, the mode is FAST iff the cycle persisted more
\* records than its plan has keys, and SLOW otherwise, whatever the mode was
\* before the cycle.
C7_PacingMode ==
    (pc = "pacing" \/ (pc = "exit" /\ outcome = "done")) =>
        IF persisted_records > Len(keys) THEN mode = "FAST" ELSE mode = "SLOW"

\* C7 witness: a cycle ends SLOW after the one-shot or service start in FAST,
\* with records persisted.
C7_Witness ==
    /\ pc = "pacing"
    /\ mode = "SLOW"
    /\ persisted_records > 0
    /\ persisted_records = Len(keys)

\* C8 (as stated): the plan holds exactly one key per active checkpoint, at
\* nextBoundary(interval, latest_close), and exactly one per listed symbol
\* without a checkpoint, at the sentinel; nothing else; and the start of a
\* checkpointed symbol is later than its latest_close.
C8_PlanExact ==
    Planned =>
        LET rows == {latest[i] : i \in DOMAIN latest}
            checkpointed == {r[1] : r \in rows}
            KeysOf(s) == {i \in DOMAIN keys : keys[i][1] = s}
        IN  /\ \A r \in rows :
                  IF r[3]
                  THEN /\ Cardinality(KeysOf(r[1])) = 1
                       /\ \A i \in KeysOf(r[1]) :
                             /\ keys[i][2] = r[2] + Duration
                             /\ keys[i][2] > r[2]
                  ELSE KeysOf(r[1]) = {}
            /\ \A s \in Range(symbol_list) \ checkpointed :
                  /\ Cardinality(KeysOf(s)) = 1
                  /\ \A i \in KeysOf(s) : keys[i][2] = Sentinel
            /\ \A i \in DOMAIN keys :
                  keys[i][1] \in checkpointed \cup Range(symbol_list)

\* C9: the reconciliation step changes no bar row and no checkpoint's id,
\* latest_close or source, adds and removes no checkpoint, flips active only
\* from false to true and only for symbols reported tradable, and when the
\* plan is about to be computed its change is durable.
C9_ReconciliationFrame ==
    [][pc = "run_once" =>
         /\ durSpot' = durSpot
         /\ tblSpot' = tblSpot
         /\ DOMAIN durLatest' = DOMAIN durLatest
         /\ \A s \in DOMAIN durLatest :
               /\ durLatest'[s].id = durLatest[s].id
               /\ durLatest'[s].latest_close = durLatest[s].latest_close
               /\ durLatest'[s].source = durLatest[s].source
               /\ durLatest'[s].symbol = durLatest[s].symbol
               /\ durLatest'[s].active # durLatest[s].active =>
                     /\ ~durLatest[s].active
                     /\ durLatest'[s].active
                     /\ <<s, TRUE>> \in active_symbols'
         /\ pc' = "get_keys" =>
               /\ tblLatest' = durLatest'
               /\ \A d \in active_symbols' : durLatest'[d[1]].active]_vars

\* C9 witness: the plan is about to be computed after a reconciliation that
\* reinstated a symbol.
C9_Witness ==
    /\ pc = "get_keys"
    /\ \E d \in active_symbols : durLatest[d[1]].active

\* C10: the durable tables change only by the commit of a flush, which makes
\* the bar rows and the checkpoints of the batch visible together, or by the
\* reconciliation, which changes no bar row; a run that ends inside
\* persist_records leaves them as they were.
C10_FlushAtomic ==
    [][(durSpot' # durSpot \/ durLatest' # durLatest) =>
          \/ /\ pc = "commit"
             /\ durSpot' =
                  SpotQueries_UPSERT(
                      durSpot,
                      [i \in DOMAIN record_objs |-> as_tuple(record_objs[i])])
             /\ durLatest' = SpotLatestQueries_UPSERT(durLatest, LatestRecords)
          \/ /\ pc = "run_once"
             /\ durSpot' = durSpot]_vars

\* C10 witness: the process died with both statements executed and not
\* committed; none of the batch is stored.
C10_Witness ==
    /\ pc = "exit"
    /\ outcome = "killed"
    /\ record_objs # <<>>
    /\ LatestRecords # <<>>
    /\ tblSpot = durSpot
    /\ \A i \in DOMAIN record_objs :
          \A e \in durSpot : e.id # record_objs[i].id
    /\ \A i \in DOMAIN LatestRecords :
          \/ LatestRecords[i][1] \notin DOMAIN durLatest
          \/ durLatest[LatestRecords[i][1]].id # LatestRecords[i][2]

\* C11 (as stated): when the fetch of the next symbol starts, fewer than
\* BATCH_SIZE bar records are pending.
C11_PendingBelowThreshold ==
    (pc = "loop" /\ processed_symbols >= 1 /\ processed_symbols < Len(keys))
        => Len(record_objs) < BATCH_SIZE

RECURSIVE Sum(_)
Sum(s) == IF s = <<>> THEN 0 ELSE Head(s) + Sum(Tail(s))

\* A cycle has returned from load_from_keys.
CycleDone == pc = "pacing" \/ (pc = "exit" /\ outcome = "done")

\* C12: when a cycle has completed, nothing is pending, every bar the
\* provider returned for a key of the plan has its row stored with the
\* measures it was served with, and the persisted-record count is the number
\* of bars fetched in the cycle; while the cycle runs, every fetched bar is
\* either pending or counted as persisted.
C12_FinalBatchFlushed ==
    /\ pc = "loop" => persisted_records + Len(record_objs) = Sum(fetched)
    /\ CycleDone =>
          /\ record_objs = <<>>
          /\ new_latest = <<>>
          /\ persisted_records = Sum(fetched)
          /\ \A i \in DOMAIN fetched :
                fetched[i] > 0 =>
                   LET bars == get_bars(keys[i][1], keys[i][2])
                   IN  /\ Len(bars) = fetched[i]
                       /\ \A j \in DOMAIN bars :
                             \E e \in durSpot :
                                 /\ e.symbol = bars[j].symbol
                                 /\ e.open_time = bars[j].timestamp
                                 /\ e.trades = bars[j].trade_count

\* C12 witness: a cycle has completed whose last symbol returned bars and the
\* number of symbols processed is not a multiple of BATCH_SIZE.
C12_Witness ==
    /\ CycleDone
    /\ Len(keys) % BATCH_SIZE # 0
    /\ fetched[Len(keys)] > 0
    /\ persisted_records = Sum(fetched)

\* The requests of a window that check_request_limit accompanies.
Counted(w) == Len(SelectSeq(w, LAMBDA r : r \in {"status", "bars"}))

Flushing == pc \in {"exec_spot", "exec_latest", "commit"}

\* A step in which a statement or the commit of persist_records raises.
FlushFails == Flushing /\ pc' = "exit" /\ outcome' # "killed"

\* C14 (as stated): when the flush fails, the stored checkpoints are those
\* the cycle's plan was computed from.
C14_CheckpointsAsAtPlan ==
    [][FlushFails => durLatest' = at_plan.latest]_vars

\* C14 (amended): when a flush fails the cycle ends there, and nothing of the
\* failing batch is stored: the durable tables are what they were when the
\* flush began.  They are the tables the plan was computed from when no
\* earlier batch of the cycle was committed; the checkpoints of an earlier batch
\* stay committed.
C14_FailedFlushStoresNothing ==
    [][/\ (Flushing /\ persisted_records = 0) =>
             /\ durLatest = at_plan.latest
             /\ durSpot = at_plan.spot
       /\ Flushing =>
             /\ \A i \in DOMAIN record_objs :
                   \A e \in durSpot : e.id # record_objs[i].id
             /\ \A i \in DOMAIN LatestRecords :
                   \A s \in DOMAIN durLatest :
                       durLatest[s].id # LatestRecords[i][2]
       /\ FlushFails =>
             /\ durLatest' = durLatest
             /\ durSpot' = durSpot
             /\ processed_symbols' = processed_symbols
             /\ cycles' = cycles
             /\ outcome' = IF as_service THEN "terminated" ELSE "crashed"]_vars

\* C14 witness: the second flush of a cycle has failed after the first was
\* committed; the stored checkpoints are not those of the plan.
C14_Witness ==
    /\ pc = "exit"
    /\ outcome \in {"terminated", "crashed"}
    /\ persisted_records > 0
    /\ record_objs # <<>>
    /\ LatestRecords # <<>>
    /\ durLatest # at_plan.latest

\* C15 (as stated): a fetch that returned bars never ends the cycle, even
\* when building a record from one of them fails: the loop goes on with the
\* next key or with the flush.
C15_MalformedCycleContinues ==
    [][(pc = "loop" /\ Len(fetched') > Len(fetched) /\ Last(fetched') > 0)
          => pc' \in {"loop", "exec_spot"}]_vars

\* A step in which a bar request went out to the provider and no bars came
\* back (a provider error, or no data).
BarRequestFails ==
    /\ pc = "loop"
    /\ window' # window
    /\ Len(fetched') > Len(fetched)
    /\ Last(fetched') = 0

IsInterval(interval_str) ==
    /\ Len(interval_str) >= 2
    /\ \A i \in 1..(Len(interval_str) - 1) : interval_str[i] \in Digits
    /\ DecimalOf(Prefix(interval_str)) > 0
    /\ Unit(interval_str) \in {"m", "h", "d", "w"}

\* C18 (as stated): with a malformed interval the run issues no bar request,
\* writes nothing and completes no cycle.
C18_FatalAtStartup ==
    ~IsInterval(interval) =>
        /\ "bars" \notin Range(window)
        /\ tblSpot = {} /\ durSpot = {}
        /\ DOMAIN tblLatest = {} /\ DOMAIN durLatest = {}
        /\ ~CycleDone

\* C17 (as stated): parse_interval_to_timedelta returns a duration exactly
\* for the specifiers with a positive integer prefix and a unit among
\* minute, hour, day, week, and fails for every other one.
C17_RejectsNonPositive ==
    calc.step \in {"parsed", "next"} =>
        (calc.duration.ok <=> IsInterval(calc.interval_str))

\* C20: for every specifier that parses and every timestamp, the result of
\* get_next_interval less the timestamp is the duration parsed, and for an
\* interval specifier it is later than the timestamp by the whole number of
\* seconds of the unit times the prefix.
C20_NextBoundaryExact ==
    calc.step = "next" =>
        /\ calc.next - calc.timestamp = calc.duration.val
        /\ IsInterval(calc.interval_str) =>
              /\ calc.next > calc.timestamp
              /\ calc.next - calc.timestamp =
                    DecimalOf(Prefix(calc.interval_str))
                      * SECONDS_PER_UNIT[Unit(calc.interval_str)]

\* C20 witness: the next boundary of a timestamp off the hour for 12h.
C20_Witness ==
    /\ calc.step = "next"
    /\ calc.interval_str = <<"1", "2", "h">>
    /\ calc.timestamp = Sentinel + 5 * 3600 + 1
    /\ calc.next = Sentinel + 17 * 3600 + 1

\* C19: a cycle is started only by a process in which no cycle has failed
\* and whose symbol list is not empty; a failed cycle leaves a service run at
\* its end, from where only a new start of the process from outside goes on;
\* a run whose symbol list is empty ends without a cycle.
C19_ErrorEndsService ==
    [][/\ cycles' > cycles =>
             /\ pc = "run_once"
             /\ outcome = "none"
             /\ symbol_list # <<>>
       /\ outcome' # "none" => pc' = "exit"
       /\ (as_service /\ outcome = "none"
             /\ pc \in {"run_once", "loop", "exec_spot", "exec_latest",
                        "commit", "pacing"}
             /\ pc' = "exit")
             => outcome' \in {"terminated", "killed"}
       /\ pc = "exit" =>
             /\ pc' = "init"
             /\ cycles' = cycles
             /\ outcome' = "none"
       /\ (pc = "init" /\ symbol_list' = <<>>) =>
             /\ pc' = "exit"
             /\ outcome' = "no_symbols"
             /\ cycles' = cycles]_vars

\* C19 witness: a service run has ended on the error of its first cycle,
\* with cycles left to run.
C19_Witness ==
    /\ as_service
    /\ pc = "exit"
    /\ outcome = "terminated"
    /\ cycles = 1
    /\ cycles < MaxCycles

\* C21 (as stated): every stored checkpoint has the id of the stored bar of
\* its symbol that opens at its latest_close.
C21_CheckpointReferencesBar ==
    \A s \in DOMAIN durLatest :
        \E e \in durSpot :
            /\ e.symbol = s
            /\ e.open_time = durLatest[s].latest_close
            /\ e.id = durLatest[s].id

\* C22 (as stated): once the bar statement of a flush has been executed, the
\* stored row of every record of the batch (the last one, where the batch
\* holds several for one symbol and open timestamp) equals that record in
\* every field, the id included.
C22_UpsertOverwritesAll ==
    pc = "exec_latest" =>
        \A i \in DOMAIN record_objs :
            (\A j \in DOMAIN record_objs :
                (/\ record_objs[j].symbol = record_objs[i].symbol
                 /\ record_objs[j].open_time = record_objs[i].open_time)
                    => j <= i)
            => RowOf(as_tuple(record_objs[i])) \in tblSpot

\* C23 (as stated): the plan holds each symbol at most once, and the
\* checkpoints of one flush are of distinct symbols.
C23_OneKeyPerSymbol ==
    /\ Planned =>
          \A i, j \in DOMAIN keys : keys[i][1] = keys[j][1] => i = j
    /\ \A i, j \in DOMAIN LatestRecords :
          LatestRecords[i][1] = LatestRecords[j][1] => i = j

\* Every bar of the series of s is stored with its final measures and the
\* checkpoint of s is at the last of them.
CaughtUpWith(s) ==
    /\ \A k \in history[s] :
          \E e \in durSpot : /\ e.symbol = s
                             /\ e.open_time = BarTime(k)
                             /\ e.trades = 2
    /\ s \in DOMAIN durLatest
    /\ \A k \in history[s] : durLatest[s].latest_close >= BarTime(k)
    /\ \E k \in history[s] : durLatest[s].latest_close = BarTime(k)

\* The symbols listed have been caught up with.
CaughtUp ==
    /\ pc # "init"
    /\ \A s \in Range(symbol_list) : history[s] # {} => CaughtUpWith(s)

\* C24: against fixed series of closed bars served at most limit bars a
\* request, a run whose cycles go on without error reaches and keeps a state
\* in which every bar of every listed symbol is stored and its checkpoint is
\* at the last bar; and no checkpoint is ever inactive, which keeps the
\* symbol out of the plan, before that.
C24_CatchUp ==
    /\ [](\A s \in DOMAIN durLatest :
             ~durLatest[s].active => CaughtUpWith(s))
    /\ <>[]CaughtUp

\* C24 witness: the series of "B", longer than one request returns, is stored
\* whole after three cycles and its checkpoint is at the last bar.
C24_Witness ==
    /\ pc = "pacing"
    /\ cycles = 3
    /\ Cardinality(RowsOf(durSpot, "B")) = limit + 1
    /\ "B" \in DOMAIN durLatest
    /\ durLatest["B"].latest_close = BarTime(limit + 1)
    /\ ~durLatest["B"].active
    /\ CaughtUp

====
